---- MODULE Spec2Model ----
(***************************************************************************)
(* Model of corrector_de_tareas: the Canvas remote client                  *)
(* (functions.canvas_request), the team roster resolver                    *)
(* (functions.check_team_assignments), the assignment analyzer             *)
(* (functions.analyze_assignment) and the review loop of main.py.          *)
(*                                                                         *)
(* Python values are modelled as follows.  A value that may be None is     *)
(* wrapped: None is [none |-> TRUE], any other value v is                  *)
(* [none |-> FALSE, val |-> v].  A dict is a record; a key the dict does   *)
(* not carry is a field the record does not have.  A list is a sequence.   *)
(* A string that the code inspects character by character is a sequence    *)
(* of one-character strings.                                               *)
(***************************************************************************)
EXTENDS Integers, Sequences, FiniteSets, TLC

VARIABLES
    pc,           \* position of the modelled run
    call,         \* canvas_request: its arguments [method, paginated, pages]
    url,          \* canvas_request: index of the page to request, 0 when None
    results,      \* canvas_request: the accumulated items
    requested,    \* canvas_request: the page urls requested so far, in order
    ret,          \* canvas_request: the returned value
    course,       \* roster resolver: what the server holds for the course
    team_options, \* roster resolver: the value check_team_assignments returned
    args,         \* analyzer: [assignment, assignment_type, is_massive]
    remote,       \* analyzer: the responses the analysis fetched
    analysis,     \* analyzer: the outcome of analyze_assignment
    run,          \* review loop: the progress of the run over course_ids
    norm          \* normalizer: [input_string, once, twice], the results of
                  \* clean_string on the input and on its own result

vars == <<pc, call, url, results, requested, ret, course, team_options,
          args, remote, analysis, run, norm>>

requestVars == <<call, url, results, requested, ret>>
teamVars == <<course, team_options>>
analyzeVars == <<args, remote, analysis>>

(***************************************************************************)
(* Python's None, truthiness and ==                                        *)
(***************************************************************************)
None == [none |-> TRUE]

Some(v) == [none |-> FALSE, val |-> v]

IsNone(x) == x.none

\* dict.get(key): the value, or None for a key the dict does not carry
Get(d, k) == IF k \in DOMAIN d THEN Some(d[k]) ELSE None

\* a == b on two values that may be None
PyEq(a, b) == IF a.none \/ b.none THEN a.none /\ b.none ELSE a.val = b.val

\* "not x" for x a list or None
FalsyList(x) == x.none \/ x.val = <<>>

RECURSIVE Concat(_)
Concat(ss) == IF ss = <<>> THEN <<>> ELSE Head(ss) \o Concat(Tail(ss))

RECURSIVE SetToSeq(_)
SetToSeq(S) ==
    IF S = {} THEN <<>>
    ELSE LET m == CHOOSE x \in S : \A y \in S : x <= y
         IN <<m>> \o SetToSeq(S \ {m})

SeqsUpTo(S, n) == UNION {[1..k -> S] : k \in 0..n}

Range(s) == {s[i] : i \in 1..Len(s)}

(***************************************************************************)
(* Bounds of the model                                                     *)
(***************************************************************************)
MaxPages == 3

MaxPerPage == 2

MaxUsers == 2

MaxGroups == 2

MaxCourses == 2

MaxAssignments == 2

MaxLen == 3

(***************************************************************************)
(* config.py                                                               *)
(***************************************************************************)
BASE_URL == "https://canvas.uautonoma.cl/api/v1"

(***************************************************************************)
(* functions.canvas_request                                                *)
(*                                                                         *)
(* The server's answer to an endpoint is a chain of pages: page k carries  *)
(* a "next" link to page k+1, the last page carries none.  A page is       *)
(* [status, body]: status "ok" (response.ok), "error" (any other HTTP      *)
(* status) or "exception" (the session call raises a RequestException).    *)
(***************************************************************************)
Statuses == {"ok", "error", "exception"}

Methods == {"get", "post", "put", "delete", "GET", "patch"}

\* str.lower() on the method names of the model
Lower(m) == IF m = "GET" THEN "get" ELSE m

SupportedMethods == {"get", "post", "put", "delete"}

\* response.links.get("next", {}).get("url"): 0 stands for None
NextLink(pages, k) == IF k < Len(pages) THEN k + 1 ELSE 0

\* the state of one call before its first loop iteration (lines 18-22)
RequestStart(c) ==
    IF BASE_URL = ""
    THEN [pc |-> "raised", url |-> 0, results |-> <<>>, requested |-> <<>>, ret |-> None]
    ELSE [pc |-> "loop", url |-> 1, results |-> <<>>, requested |-> <<>>, ret |-> None]

\* a changed accumulation: each page's items go in front of the earlier ones
Extend_Prepend(acc, data) == data \o acc

\* the accumulation of one page's items (line 44)
Extend(acc, data) == acc \o data

\* a changed failure path: the items accumulated so far are returned
FailureValue_Partial(acc) == Some(acc)

\* what the call returns when a request fails (lines 38-40 and 53-55)
FailureValue(acc) == None

\* one evaluation of the loop condition and, when it holds, one iteration
\* of the loop body (lines 25-51, with the handler of lines 53-55)
RequestStep(c, s) ==
    IF s.url = 0
    THEN [s EXCEPT !.pc = "returned",
                   !.ret = IF c.paginated THEN Some(s.results) ELSE None]
    ELSE IF Lower(c.method) \notin SupportedMethods
    THEN [s EXCEPT !.pc = "returned", !.ret = None]
    ELSE LET response == c.pages[s.url]
             sent == [s EXCEPT !.requested = Append(@, s.url)]
         IN IF response.status = "exception"
            THEN [sent EXCEPT !.pc = "returned", !.ret = FailureValue(s.results)]
            ELSE IF response.status # "ok"
            THEN [sent EXCEPT !.pc = "returned", !.ret = FailureValue(s.results)]
            ELSE IF c.paginated
            THEN [sent EXCEPT !.results = Extend(s.results, response.body),
                              !.url = NextLink(c.pages, s.url)]
            ELSE [sent EXCEPT !.pc = "returned", !.ret = Some(response.body)]

RECURSIVE RequestRun(_, _)
RequestRun(c, s) == IF s.pc = "loop" THEN RequestRun(c, RequestStep(c, s)) ELSE s

\* the value of canvas_request(session, method, endpoint, paginated=...) when
\* the server answers the endpoint with the chain `pages`
canvas_request(method, pages, paginated) ==
    LET c == [method |-> method, paginated |-> paginated, pages |-> pages]
    IN RequestRun(c, RequestStart(c)).ret

\* the items of page k of a chain: distinct for distinct (k, j)
Items(k, n) == [j \in 1..n |-> 10 * k + j]

PageShapes == [status : Statuses, n : 0..MaxPerPage]

Chains ==
    {[k \in 1..Len(sh) |-> [status |-> sh[k].status, body |-> Items(k, sh[k].n)]] :
        sh \in SeqsUpTo(PageShapes, MaxPages) \ {<<>>}}

Calls == [method : Methods, paginated : BOOLEAN, pages : Chains]

Idle == <<>>

InitRequest ==
    /\ call \in Calls
    /\ LET s == RequestStart(call)
       IN /\ pc = s.pc
          /\ url = s.url
          /\ results = s.results
          /\ requested = s.requested
          /\ ret = s.ret
    /\ course = Idle
    /\ team_options = Idle
    /\ args = Idle
    /\ remote = Idle
    /\ analysis = Idle
    /\ norm = Idle
    /\ run = Idle

Request ==
    /\ pc = "loop"
    /\ LET s == RequestStep(call,
                    [pc |-> pc, url |-> url, results |-> results,
                     requested |-> requested, ret |-> ret])
       IN /\ pc' = s.pc
          /\ url' = s.url
          /\ results' = s.results
          /\ requested' = s.requested
          /\ ret' = s.ret
    /\ UNCHANGED <<call, teamVars, analyzeVars, run, norm>>

NextRequest == Request

SpecRequest == InitRequest /\ [][NextRequest]_vars

(***************************************************************************)
(* Properties of canvas_request                                            *)
(***************************************************************************)
AllPagesOk(pages) == \A k \in 1..Len(pages) : pages[k].status = "ok"

RequestFailed ==
    \/ Lower(call.method) \notin SupportedMethods
    \/ \E i \in 1..Len(requested) : call.pages[requested[i]].status # "ok"

\* C2: canvas_request raises nothing, and once a request got a non-success
\* status or a transport failure, or the method is unsupported, the call
\* returns None (never the items of the earlier pages); no page url is
\* requested twice.
C2_FailureYieldsNone ==
    /\ pc # "raised"
    /\ \A i, j \in 1..Len(requested) : i # j => requested[i] # requested[j]
    /\ (pc = "returned" /\ RequestFailed) => ret = None
    /\ pc = "loop" => \A i \in 1..Len(requested) : call.pages[requested[i]].status = "ok"

\* C2 witness: a paginated call whose second or later page failed after
\* items of the earlier pages had been accumulated, and which returned None
C2_Witness ==
    /\ pc = "returned"
    /\ call.paginated
    /\ Len(requested) >= 2
    /\ call.pages[requested[Len(requested)]].status # "ok"
    /\ results # <<>>
    /\ ret = None

\* C3: over a chain of successful pages a paginated call requests every
\* page once, in chain order, and returns the concatenation of the pages'
\* items in page order; a non-paginated call sends one request and returns
\* the first response body as it is.
C3_PaginationConcatenates ==
    (pc = "returned" /\ Lower(call.method) \in SupportedMethods) =>
        /\ (call.paginated /\ AllPagesOk(call.pages)) =>
              /\ requested = [k \in 1..Len(call.pages) |-> k]
              /\ ret = Some(Concat([k \in 1..Len(call.pages) |-> call.pages[k].body]))
        /\ (~call.paginated /\ call.pages[1].status = "ok") =>
              /\ requested = <<1>>
              /\ ret = Some(call.pages[1].body)

\* C3 witness: three successful pages of 2, 2 and 1 items gave 5 items
C3_Witness ==
    /\ pc = "returned"
    /\ call.paginated
    /\ Len(call.pages) = 3
    /\ AllPagesOk(call.pages)
    /\ Len(call.pages[1].body) = 2
    /\ Len(call.pages[2].body) = 2
    /\ Len(call.pages[3].body) = 1
    /\ ~ret.none
    /\ ret.val = <<11, 12, 21, 22, 31>>

(***************************************************************************)
(* functions.check_group_categories and functions.check_team_assignments   *)
(*                                                                         *)
(* What the server holds for a course, as far as the roster is concerned:  *)
(*   group_categories  chain of pages of categories [name, id]             *)
(*   groups            chain of pages of the groups [id, name] of the      *)
(*                     category "Equipo de trabajo"                        *)
(*   users             chain of pages of users [id, name, enrollments]     *)
(*                     (a user may carry no "enrollments" key)             *)
(*   memberships       for each group id, a chain of pages of memberships  *)
(*                     [user_id]                                           *)
(***************************************************************************)
EQUIPO_DE_TRABAJO == "Equipo de trabajo"

PROJECT_GROUPS == "Project Groups"

\* next((gc for gc in group_categories if gc.get("name") == name), None)
FirstNamed(group_categories, name) ==
    LET hits == {i \in 1..Len(group_categories) : group_categories[i].name = name}
    IN IF hits = {} THEN None
       ELSE Some(group_categories[CHOOSE i \in hits : \A j \in hits : i <= j])

\* check_group_categories(session, course_id): the request is not paginated
check_group_categories(c) ==
    LET group_categories_response == canvas_request("get", c.group_categories, FALSE)
    IN IF group_categories_response.none THEN None
       ELSE LET trabajo_en_equipo == FirstNamed(group_categories_response.val, EQUIPO_DE_TRABAJO)
                project_groups == FirstNamed(group_categories_response.val, PROJECT_GROUPS)
            IN Some([equipo_exists |-> ~trabajo_en_equipo.none,
                     project_exists |-> ~project_groups.none])

\* the early return of lines 119 and 126
NoTeams ==
    [teams_created |-> FALSE, all_assigned |-> FALSE,
     group_memberships |-> <<>>, unassigned_students |-> {}]

\* user.get("enrollments") and "student" in user["enrollments"][0]["type"]
IsStudent(user) ==
    /\ "enrollments" \in DOMAIN user
    /\ user.enrollments # <<>>
    /\ user.enrollments[1].type = "student"

\* student_dict (lines 134-138): student id -> details
StudentDict(users_response) ==
    LET ids == {users_response[i].id : i \in {j \in 1..Len(users_response) : IsStudent(users_response[j])}}
    IN [id \in ids |-> <<"name", id>>]

\* a changed accounting: only the first membership of a group is counted
Assigned_FirstOnly(memberships, student_dict) ==
    {memberships[i].user_id :
        i \in {j \in {1} : memberships[j].user_id \in DOMAIN student_dict}}

\* the ids line 148 adds to assigned_student_ids for one group
Assigned(memberships, student_dict) ==
    {memberships[i].user_id :
        i \in {j \in 1..Len(memberships) : memberships[j].user_id \in DOMAIN student_dict}}

\* the names line 149 records for one group
MemberNames(memberships, student_dict) ==
    [i \in 1..Len(memberships) |->
        IF memberships[i].user_id \in DOMAIN student_dict
        THEN student_dict[memberships[i].user_id]
        ELSE <<"Desconocido">>]

\* "if not users_response" (line 130)
UsersUnavailable(users_response) == FalsyList(users_response)

\* lines 128-163, once the groups are known
ResolveRoster(c, groups) ==
    LET users_response == canvas_request("get", c.users, TRUE)
    IN IF UsersUnavailable(users_response) THEN None
       ELSE LET student_dict == StudentDict(users_response.val)
                student_ids == DOMAIN student_dict
                fetched == [i \in 1..Len(groups) |->
                               canvas_request("get", c.memberships[groups[i].id], TRUE)]
                kept == {i \in 1..Len(groups) : ~FalsyList(fetched[i])}
                assigned_student_ids ==
                    UNION {Assigned(fetched[i].val, student_dict) : i \in kept}
                group_memberships ==
                    [name \in {groups[i].name : i \in kept} |->
                        MemberNames(fetched[CHOOSE i \in kept : groups[i].name = name].val,
                                    student_dict)]
                unassigned_students == student_ids \ assigned_student_ids
            IN Some([teams_created |-> TRUE,
                     all_assigned |-> unassigned_students = {},
                     unassigned_students |-> unassigned_students,
                     total_students |-> Cardinality(student_ids),
                     total_teams |-> Len(groups),
                     group_memberships |-> group_memberships])

\* check_team_assignments(session, course_id)
check_team_assignments(c) ==
    LET group_categories == canvas_request("get", c.group_categories, TRUE)
    IN IF FalsyList(group_categories) THEN None
       ELSE LET equipo_de_trabajo == FirstNamed(group_categories.val, EQUIPO_DE_TRABAJO)
            IN IF equipo_de_trabajo.none THEN Some(NoTeams)
               ELSE LET groups == canvas_request("get", c.groups, TRUE)
                    IN IF FalsyList(groups) THEN Some(NoTeams)
                       ELSE ResolveRoster(c, groups.val)

(***************************************************************************)
(* The courses the roster resolver is run on                               *)
(***************************************************************************)
OkPage(body) == [status |-> "ok", body |-> body]

FailedFetch == <<[status |-> "error", body |-> <<>>]>>

Equipo == [name |-> EQUIPO_DE_TRABAJO, id |-> 1]

Project == [name |-> PROJECT_GROUPS, id |-> 2]

\* the group categories of a course: a failed fetch, one page, or two pages
GroupCategoryChains ==
    { FailedFetch,
      <<OkPage(<<>>)>>,
      <<OkPage(<<Project>>)>>,
      <<OkPage(<<Equipo>>)>>,
      <<OkPage(<<Equipo, Project>>)>>,
      <<OkPage(<<Project>>), OkPage(<<Equipo>>)>>,
      <<OkPage(<<Project>>), [status |-> "error", body |-> <<>>]>> }

EnrollmentChoices ==
    { <<>>, <<[type |-> "student"]>>, <<[type |-> "teacher"]>>,
      <<[type |-> "teacher"], [type |-> "student"]>> }

\* a user record: the "enrollments" key is absent when enr is the empty list
User(id, enr) ==
    IF enr = <<>> THEN [id |-> id, name |-> <<"name", id>>]
    ELSE [id |-> id, name |-> <<"name", id>>, enrollments |-> enr]

\* user lists over the ids 1..n: each id absent or present with some enrollments
UserLists(n) ==
    {[i \in 1..Len(ids) |-> User(ids[i], enr[ids[i]])] :
        ids \in {SetToSeq(S) : S \in SUBSET (1..n)},
        enr \in [1..n -> EnrollmentChoices]}

UserChains(n) == {FailedFetch} \cup {<<OkPage(u)>> : u \in UserLists(n)}

MembershipChains(n) ==
    {FailedFetch} \cup
    {<<OkPage([i \in 1..Len(ids) |-> [user_id |-> ids[i]]])>> :
        ids \in {SetToSeq(S) : S \in SUBSET (1..n)}}

GroupChains(g) ==
    {FailedFetch} \cup
    {<<OkPage([i \in 1..k |-> [id |-> i, name |-> <<"group", i>>]])>> : k \in 0..g}

TeamCourses(n, g) ==
    {c \in [group_categories : GroupCategoryChains,
            groups : GroupChains(g),
            users : UserChains(n),
            memberships : [1..g -> MembershipChains(n)]] :
        \* memberships exist for the groups of the course only
        \A i \in 1..g :
            (c.groups = FailedFetch \/ i > Len(c.groups[1].body))
                => c.memberships[i] = <<OkPage(<<>>)>>}

InitTeams ==
    /\ pc = "call"
    /\ course \in TeamCourses(MaxUsers, MaxGroups)
    /\ team_options = Idle
    /\ call = Idle
    /\ url = 0
    /\ results = <<>>
    /\ requested = <<>>
    /\ ret = None
    /\ args = Idle
    /\ remote = Idle
    /\ analysis = Idle
    /\ norm = Idle
    /\ run = Idle

ResolveTeams ==
    /\ pc = "call"
    /\ team_options' = check_team_assignments(course)
    /\ pc' = "returned"
    /\ UNCHANGED <<course, requestVars, analyzeVars, run, norm>>

NextTeams == ResolveTeams

SpecTeams == InitTeams /\ [][NextTeams]_vars

(***************************************************************************)
(* Properties of check_team_assignments                                    *)
(***************************************************************************)
\* the items the server holds under a chain
Held(chain) == Concat([k \in 1..Len(chain) |-> chain[k].body])

FetchOk(chain) == AllPagesOk(chain)

\* the ids of the students of the course, by the filter of lines 134-138
StudentIds(c) == DOMAIN StudentDict(Held(c.users))

\* the union of the membership user ids over the groups of "Equipo de trabajo"
MemberIds(c) ==
    UNION {{Held(c.memberships[g.id])[i].user_id : i \in 1..Len(Held(c.memberships[g.id]))} :
              g \in Range(Held(c.groups))}

EquipoHeld(c) == \E gc \in Range(Held(c.group_categories)) : gc.name = EQUIPO_DE_TRABAJO

\* C5 (as stated): whenever check_team_assignments returns a result,
\* all_assigned is true if and only if the set of student ids equals the
\* union of the membership user ids over all groups of "Equipo de trabajo".
C5_AllAssignedIffEqual ==
    (pc = "returned" /\ ~team_options.none) =>
        (team_options.val.all_assigned <=> StudentIds(course) = MemberIds(course))

\* C5 (amended): a result with teams_created true has all_assigned true if
\* and only if every student id is among the membership user ids of the
\* groups (memberships of non-students are ignored); a result with
\* teams_created false (no category, no groups) has all_assigned false.
C5_AllAssignedIffSubset ==
    (pc = "returned" /\ ~team_options.none) =>
        /\ team_options.val.teams_created =>
              (team_options.val.all_assigned <=> StudentIds(course) \subseteq MemberIds(course))
        /\ ~team_options.val.teams_created => ~team_options.val.all_assigned

\* C5 witness: a non-student holds a membership, every student is in a
\* group, and the resolver reported all_assigned
C5_Witness ==
    /\ pc = "returned"
    /\ ~team_options.none
    /\ team_options.val.teams_created
    /\ team_options.val.all_assigned
    /\ StudentIds(course) # {}
    /\ MemberIds(course) \ StudentIds(course) # {}

\* C10: with every fetch successful, the category present and groups in it,
\* an empty student set gives a result with all_assigned true and nobody
\* unassigned.
C10_EmptyStudentSetAllAssigned ==
    ( /\ pc = "returned"
      /\ FetchOk(course.group_categories) /\ FetchOk(course.groups) /\ FetchOk(course.users)
      /\ EquipoHeld(course)
      /\ Held(course.groups) # <<>>
      /\ StudentIds(course) = {} ) =>
        /\ ~team_options.none
        /\ team_options.val.all_assigned
        /\ team_options.val.unassigned_students = {}

(***************************************************************************)
(* helpers.clean_string                                                    *)
(*                                                                         *)
(* A string is a sequence of characters, a character a string naming it:   *)
(* a letter, digit or punctuation mark names itself, " " is whitespace,    *)
(* "a_acute" ... "u_acute" are the precomposed accented letters and        *)
(* "U+0301" is the combining acute accent.                                 *)
(***************************************************************************)
Whitespace == {" "}

KeptPunctuation == {".", ",", "!", "?", "-"}

CombiningMarks == {"U+0301"}

StrippedPunctuation == {"#", ":", "(", ")"}

\* str.lower() on one character
LowerChar(ch) ==
    CASE ch = "A" -> "a" [] ch = "C" -> "c" [] ch = "D" -> "d" [] ch = "E" -> "e"
      [] ch = "F" -> "f" [] ch = "M" -> "m" [] ch = "T" -> "t"
      [] ch = "A_acute" -> "a_acute" [] ch = "E_acute" -> "e_acute"
      [] OTHER -> ch

\* unicodedata.normalize('NFD', .) on one character
Decompose(ch) ==
    CASE ch = "a_acute" -> <<"a", "U+0301">> [] ch = "e_acute" -> <<"e", "U+0301">>
      [] ch = "i_acute" -> <<"i", "U+0301">> [] ch = "o_acute" -> <<"o", "U+0301">>
      [] ch = "u_acute" -> <<"u", "U+0301">>
      [] ch = "A_acute" -> <<"A", "U+0301">> [] ch = "E_acute" -> <<"E", "U+0301">>
      [] OTHER -> <<ch>>

\* \w of a str pattern: alphanumeric or "_"; a combining mark is neither
IsWordChar(ch) == ch \notin Whitespace \cup KeptPunctuation \cup CombiningMarks \cup StrippedPunctuation

\* the characters [^\w\s.,!?-] leaves in place
Kept(ch) == IsWordChar(ch) \/ ch \in Whitespace \/ ch \in KeptPunctuation

RECURSIVE LStrip(_)
LStrip(str) == IF str # <<>> /\ Head(str) \in Whitespace THEN LStrip(Tail(str)) ELSE str

RECURSIVE RStrip(_)
RStrip(str) ==
    IF str # <<>> /\ str[Len(str)] \in Whitespace THEN RStrip(SubSeq(str, 1, Len(str) - 1)) ELSE str

\* str.strip()
Strip(str) == RStrip(LStrip(str))

\* str.lower()
LowerStr(str) == [i \in 1..Len(str) |-> LowerChar(str[i])]

\* unicodedata.normalize('NFD', str)
NFD(str) == Concat([i \in 1..Len(str) |-> Decompose(str[i])])

\* the characters [\u0300-\u036f] leaves in place
NotCombiningMark(ch) == ch \notin CombiningMarks

\* clean_string(input_string)
clean_string(input_string) ==
    LET cleaned1 == LowerStr(Strip(input_string))
        cleaned2 == NFD(cleaned1)
        cleaned3 == SelectSeq(cleaned2, Kept)
    IN SelectSeq(cleaned3, NotCombiningMark)

\* needle in haystack
Contains(needle, haystack) ==
    \E i \in 1..(Len(haystack) - Len(needle) + 1) :
        SubSeq(haystack, i, i + Len(needle) - 1) = needle

(***************************************************************************)
(* functions.get_rubric_details, get_module_name, get_quiz_details         *)
(***************************************************************************)
\* get_rubric_details(course_id, assignment)
get_rubric_details(assignment) ==
    IF "rubric_settings" \in DOMAIN assignment
    THEN [has_rubric |-> TRUE,
          rubric_points |-> Get(assignment.rubric_settings, "points_possible"),
          rubric_used_for_grading |->
              "use_rubric_for_grading" \in DOMAIN assignment /\ assignment.use_rubric_for_grading]
    ELSE [has_rubric |-> FALSE, rubric_points |-> None, rubric_used_for_grading |-> FALSE]

\* get_module_name(session, course_id, assignment_group_id); `chain` is the
\* server's answer to the assignment group lookup
get_module_name(chain) ==
    LET response == canvas_request("get", chain, FALSE)
    IN IF response.none THEN None
       ELSE Some([name |-> Get(response.val, "name"),
                  weight |-> Get(response.val, "group_weight"),
                  id |-> Get(response.val, "id")])

\* the default of quiz_details.get("time_limit", "Sin limite"): no number of minutes
SIN_LIMITE == -1

\* get_quiz_details(session, course_id, quiz_id); `chain` is the server's
\* answer to the quiz lookup
get_quiz_details(chain) ==
    LET quiz_details == canvas_request("get", chain, FALSE)
    IN IF quiz_details.none THEN None
       ELSE LET q == quiz_details.val
            IN Some([intentos_permitidos |-> Get(q, "allowed_attempts"),
                     tiempo_limite |-> IF "time_limit" \in DOMAIN q
                                       THEN Some(q.time_limit) ELSE Some(SIN_LIMITE),
                     mezclar_respuestas |-> "shuffle_answers" \in DOMAIN q /\ q.shuffle_answers,
                     permitir_que_estudiantes_vean_respuestas |->
                         ~("hide_results" \in DOMAIN q /\ q.hide_results = "always"),
                     mostrar_respuestas_correctas |->
                         "show_correct_answers" \in DOMAIN q /\ q.show_correct_answers,
                     cantidad_de_preguntas |-> Get(q, "question_count")])

(***************************************************************************)
(* functions.analyze_assignment                                            *)
(*                                                                         *)
(* A row of the checklist is [label, ok]: the requirement's label (the     *)
(* source's labels, written without accents) and whether its state is the  *)
(* pass glyph.  The "Actual" text of a row is not modelled, except where   *)
(* computing it raises.  The outcome of a call is                          *)
(*   [outcome |-> "returned", rows, rules, fetched]  or                    *)
(*   [outcome |-> "raised", line, fetched]                                 *)
(* where rules is the rule set looked up, fetched the lookups made, in     *)
(* order, and line the source line that raised.                            *)
(***************************************************************************)
Row(label, ok) == [label |-> label, ok |-> ok]

Labels(rows) == [i \in 1..Len(rows) |-> rows[i].label]

\* dict.update for one key: a key the dict holds keeps its place
UpdateOne(result, row) ==
    IF \E i \in 1..Len(result) : result[i].label = row.label
    THEN [i \in 1..Len(result) |-> IF result[i].label = row.label THEN row ELSE result[i]]
    ELSE Append(result, row)

\* result.update({...}): the keys of the literal in the order written
RECURSIVE Update(_, _)
Update(result, rows) ==
    IF rows = <<>> THEN result ELSE Update(UpdateOne(result, Head(rows)), Tail(rows))

\* a remap that comes too late: the category is left as given
Remap_Never(assignment_type, is_massive) == assignment_type

\* lines 191-192
Remap(assignment_type, is_massive) ==
    IF is_massive /\ assignment_type = "finalwork" THEN "quiz_final" ELSE assignment_type

\* the rule catalog (lines 199-226)
rules(is_massive) ==
    [forum |-> [submission_types |-> <<"discussion_topic">>,
                points_possible |-> 100,
                module_weight |-> 20,
                discussion_type |-> "threaded"],
     finalwork |-> [submission_types |-> <<"online_upload">>,
                    allowed_attempts |-> 2,
                    points_possible |-> 100,
                    module_weight |-> 50],
     quiz_final |-> [submission_types |-> <<"online_quiz">>,
                     allowed_attempts |-> 1,
                     points_possible |-> 30,
                     module_weight |-> 30,
                     time_limit |-> 90,
                     question_count |-> 30],
     teamwork |-> [submission_types |-> <<"online_upload">>,
                   allowed_attempts |-> 2,
                   points_possible |-> 100,
                   module_weight |-> IF ~is_massive THEN 30 ELSE 50]]

\* rules.get(assignment_type, {}) (line 228)
SpecificRules(assignment_type, is_massive) ==
    IF assignment_type \in DOMAIN rules(is_massive)
    THEN rules(is_massive)[assignment_type]
    ELSE <<>>

\* a changed analysis: no category gets rubric rows
RubricRows_Omitted(assignment_type, rubric_details) == <<>>

\* the rubric rows (lines 237-251)
RubricRows(assignment_type, rubric_details) ==
    IF assignment_type # "quiz_final"
    THEN << Row("Tiene rubrica", rubric_details.has_rubric),
            Row("Puntos rubrica", PyEq(rubric_details.rubric_points, Some(100))),
            Row("Usa rubrica para calificar", rubric_details.rubric_used_for_grading) >>
    ELSE <<>>

\* the delivery row (lines 254-259)
DeliveryRows(assignment, specific_rules) ==
    << Row("Tipo de entrega",
           PyEq(Get(assignment, "submission_types"), Get(specific_rules, "submission_types"))) >>

\* the attempts row (lines 261-267)
AttemptRows(assignment_type, assignment, specific_rules) ==
    IF assignment_type # "forum" /\ assignment_type # "quiz_final"
    THEN << Row("Intentos permitidos",
                PyEq(Get(assignment, "allowed_attempts"), Get(specific_rules, "allowed_attempts"))) >>
    ELSE <<>>

\* a changed order: the points row is written before the grading-type row
GradingRows_Reordered(assignment, module_info, specific_rules) ==
    << Row("Puntos posibles",
           PyEq(Get(assignment, "points_possible"), Get(specific_rules, "points_possible"))),
       Row("Tipo de calificacion", PyEq(Get(assignment, "grading_type"), Some("points"))),
       Row("Ponderacion", PyEq(module_info.weight, Get(specific_rules, "module_weight"))),
       Row("Modulo", clean_string(module_info.name.val) = clean_string(assignment.name)) >>

\* the grading rows (lines 269-286), for a module lookup that succeeded
GradingRows(assignment, module_info, specific_rules) ==
    << Row("Tipo de calificacion", PyEq(Get(assignment, "grading_type"), Some("points"))),
       Row("Puntos posibles",
           PyEq(Get(assignment, "points_possible"), Get(specific_rules, "points_possible"))),
       Row("Ponderacion", PyEq(module_info.weight, Get(specific_rules, "module_weight"))),
       Row("Modulo", clean_string(module_info.name.val) = clean_string(assignment.name)) >>

\* the line of lines 269-286 that raises, 0 when none does:
\* int(None) (lines 275, 279), None['weight'] (line 279), None.strip() (line 284)
GradingRaises(assignment, module_info) ==
    IF "points_possible" \notin DOMAIN assignment THEN 275
    ELSE IF module_info.none THEN 279
    ELSE IF module_info.val.weight.none THEN 279
    ELSE IF module_info.val.name.none \/ "name" \notin DOMAIN assignment THEN 284
    ELSE 0

\* the teamwork rows (lines 296-321), for checks that both returned a value
TeamRows(assignment, group_categories_check, team_options_) ==
    << Row("Es trabajo en grupo", "group_category_id" \in DOMAIN assignment),
       Row("Existe Equipo de trabajo", group_categories_check.equipo_exists),
       Row("Existe Project Groups", ~group_categories_check.project_exists),
       Row("Equipos creados", team_options_.teams_created),
       Row("Grupos", DOMAIN team_options_.group_memberships # {}),
       Row("Alumnos sin asignar", team_options_.all_assigned) >>

\* the quiz rows (lines 324-350)
QuizRows(quiz_details, specific_rules) ==
    << Row("Numero de preguntas",
           PyEq(quiz_details.cantidad_de_preguntas, Get(specific_rules, "question_count"))),
       Row("Intentos permitidos",
           PyEq(quiz_details.intentos_permitidos, Get(specific_rules, "allowed_attempts"))),
       Row("Limite de tiempo (min)",
           PyEq(quiz_details.tiempo_limite, Get(specific_rules, "time_limit"))),
       Row("Mezclar respuestas", quiz_details.mezclar_respuestas),
       Row("Permitir que estudiantes vean respuestas",
           quiz_details.permitir_que_estudiantes_vean_respuestas),
       Row("Mostrar respuestas correctas", quiz_details.mostrar_respuestas_correctas) >>

Raised(line, fetched) == [outcome |-> "raised", line |-> line, fetched |-> fetched]

Returned(rows, specific_rules, fetched) ==
    [outcome |-> "returned", rows |-> rows, rules |-> specific_rules, fetched |-> fetched]

\* analyze_assignment(session, course_id, assignment, assignment_type, is_massive);
\* server = [module, quiz, course]: the server's answers to the lookups
analyze_assignment(assignment, assignment_type_given, is_massive, server) ==
    LET assignment_type == Remap(assignment_type_given, is_massive)
        rubric_details == get_rubric_details(assignment)
        module_info == get_module_name(server.module)
        specific_rules == SpecificRules(assignment_type, is_massive)
        asks_quiz == assignment_type = "quiz_final" /\ "quiz_id" \in DOMAIN assignment
        quiz_details == IF asks_quiz THEN get_quiz_details(server.quiz) ELSE None
        fetched1 == <<"assignment_group">> \o (IF asks_quiz THEN <<"quiz">> ELSE <<>>)
        result1 == RubricRows(assignment_type, rubric_details)
        result2 == Update(result1, DeliveryRows(assignment, specific_rules))
        result3 == Update(result2, AttemptRows(assignment_type, assignment, specific_rules))
    IN IF GradingRaises(assignment, module_info) # 0
       THEN Raised(GradingRaises(assignment, module_info), fetched1)
       ELSE LET result4 == Update(result3, GradingRows(assignment, module_info.val, specific_rules))
            IN IF assignment_type = "teamwork"
               THEN LET group_categories_check == check_group_categories(server.course)
                        team_options_ == check_team_assignments(server.course)
                        fetched2 == fetched1 \o <<"group_categories", "team_assignments">>
                    IN IF team_options_.none THEN Raised(293, fetched2)
                       ELSE IF group_categories_check.none THEN Raised(302, fetched2)
                       ELSE Returned(Update(result4, TeamRows(assignment, group_categories_check.val,
                                                              team_options_.val)),
                                     specific_rules, fetched2)
               ELSE IF assignment_type = "quiz_final" /\ ~quiz_details.none
               THEN Returned(Update(result4, QuizRows(quiz_details.val, specific_rules)),
                             specific_rules, fetched1)
               ELSE Returned(result4, specific_rules, fetched1)

(***************************************************************************)
(* The calls analyze_assignment is run on                                  *)
(***************************************************************************)
\* a dict from a record of values that may be None: a None leaves the key out
MakeDict(w) == [k \in {f \in DOMAIN w : ~w[f].none} |-> w[k].val]

AssignmentTypes == {"forum", "teamwork", "finalwork", "quiz_final", "other"}

AssignmentName == <<"F", "o", "r", "o">>

\* the first is equal to AssignmentName once both are cleaned, the second is not
ModuleNames == {<<"f", "o", "r", "o", "#">>, <<"f", "i", "n">>}

ModuleWeights == {20, 30, 50}

ModuleChains ==
    {FailedFetch} \cup
    {<<OkPage([name |-> n, group_weight |-> w, id |-> 7])>> : n \in ModuleNames, w \in ModuleWeights}

QuizChains ==
    {FailedFetch} \cup
    {<<OkPage(MakeDict(q))>> :
        q \in [question_count : {Some(25), Some(30)},
               allowed_attempts : {Some(1), Some(2)},
               time_limit : {None, Some(90)},
               shuffle_answers : {Some(TRUE), Some(FALSE)},
               hide_results : {None, Some("always")},
               show_correct_answers : {Some(TRUE), Some(FALSE)}]}

\* the assignments analysed under a category: the keys the analysis of the
\* category never reads (quiz_id, group_category_id, discussion_topic, and
\* for quiz_final the assignment's own allowed_attempts) do not vary
Assignments(assignment_type) ==
    {MakeDict(w) :
        w \in [name : {Some(AssignmentName)},
               assignment_group_id : {Some(7)},
               submission_types : {None, Some(<<"discussion_topic">>),
                                   Some(<<"online_upload">>), Some(<<"online_quiz">>)},
               points_possible : {None, Some(30), Some(100)},
               grading_type : {Some("points"), Some("percent")},
               allowed_attempts : IF assignment_type = "quiz_final"
                                  THEN {Some(2)} ELSE {None, Some(1), Some(2)},
               rubric_settings : IF assignment_type = "quiz_final"
                                 THEN {None, Some([points_possible |-> 100])}
                                 ELSE {None, Some([points_possible |-> 100]),
                                       Some([points_possible |-> 50])},
               use_rubric_for_grading : IF assignment_type = "quiz_final"
                                        THEN {Some(TRUE)} ELSE {Some(TRUE), Some(FALSE)},
               group_category_id : IF assignment_type = "teamwork"
                                   THEN {None, Some(1)} ELSE {None},
               quiz_id : IF assignment_type = "quiz_final"
                         THEN {None, Some(5)} ELSE {None},
               discussion_topic : IF assignment_type = "forum"
                                  THEN {Some([discussion_type |-> "threaded"]),
                                        Some([discussion_type |-> "side_comment"])}
                                  ELSE {None}]}

\* the courses a teamwork assignment is analysed in: one student, at most
\* one group, the user and membership fetches successful
AnalyzedCourses ==
    {c \in TeamCourses(1, 1) :
        /\ c.users = <<OkPage(<<User(1, <<[type |-> "student"]>>)>>)>>
        /\ c.memberships[1] # FailedFetch}

NotAsked == <<>>

InitAnalyze ==
    /\ pc = "call"
    /\ args \in UNION {{[assignment |-> a, assignment_type |-> tm[1], is_massive |-> tm[2]] :
                            a \in Assignments(Remap(tm[1], tm[2]))} :
                        tm \in AssignmentTypes \X BOOLEAN}
    /\ remote = Idle
    /\ analysis = Idle
    /\ norm = Idle
    /\ call = Idle
    /\ url = 0
    /\ results = <<>>
    /\ requested = <<>>
    /\ ret = None
    /\ course = Idle
    /\ team_options = Idle
    /\ run = Idle

\* one call of analyze_assignment; the server's answers to the lookups the
\* call makes are the call's inputs
Analyze ==
    /\ pc = "call"
    /\ \E module \in ModuleChains,
          quiz \in IF Remap(args.assignment_type, args.is_massive) = "quiz_final"
                      /\ "quiz_id" \in DOMAIN args.assignment
                   THEN QuizChains ELSE {NotAsked},
          crs \in IF Remap(args.assignment_type, args.is_massive) = "teamwork"
                  THEN AnalyzedCourses ELSE {NotAsked} :
            /\ remote' = [module |-> module, quiz |-> quiz, course |-> crs]
            /\ analysis' = analyze_assignment(args.assignment, args.assignment_type,
                                              args.is_massive, remote')
    /\ pc' = "returned"
    /\ UNCHANGED <<args, requestVars, teamVars, run, norm>>

NextAnalyze == Analyze

SpecAnalyze == InitAnalyze /\ [][NextAnalyze]_vars

(***************************************************************************)
(* Properties of analyze_assignment                                        *)
(***************************************************************************)
HasRow(rows, label) == \E i \in 1..Len(rows) : rows[i].label = label

RowOk(rows, label) == \E i \in 1..Len(rows) : rows[i].label = label /\ rows[i].ok

AllRowsOk(rows) == \A i \in 1..Len(rows) : rows[i].ok

RubricLabels == <<"Tiene rubrica", "Puntos rubrica", "Usa rubrica para calificar">>

GradingLabels == <<"Tipo de calificacion", "Puntos posibles", "Ponderacion", "Modulo">>

TeamLabels ==
    <<"Es trabajo en grupo", "Existe Equipo de trabajo", "Existe Project Groups",
      "Equipos creados", "Grupos", "Alumnos sin asignar">>

QuizLabels ==
    <<"Numero de preguntas", "Intentos permitidos", "Limite de tiempo (min)",
      "Mezclar respuestas", "Permitir que estudiantes vean respuestas",
      "Mostrar respuestas correctas">>

IndexOf(seq, x) == CHOOSE i \in 1..Len(seq) : seq[i] = x

Called == pc = "returned"

Checklist == analysis.outcome = "returned"

\* what the server holds under the lookups of the call
ModuleHeld == remote.module[1].body

QuizHeld == remote.quiz[1].body

\* C4: a "finalwork" call on a massive course is analysed under the
\* quiz_final rule set (online_quiz, 30 points, weight 30, 1 attempt, 90
\* minutes, 30 questions) and takes the quiz_final branches: no rubric
\* rows, no attempts row from the assignment, the quiz detail looked up
\* for an assignment that carries a quiz_id; on a course that is not
\* massive it is analysed under the finalwork rule set.
C4_MassiveFinalworkIsQuizFinal ==
    (Called /\ args.assignment_type = "finalwork") =>
        LET a == args.assignment
        IN IF args.is_massive
           THEN /\ ("quiz" \in Range(analysis.fetched)) <=> ("quiz_id" \in DOMAIN a)
                /\ Checklist =>
                    /\ analysis.rules = [submission_types |-> <<"online_quiz">>,
                                         allowed_attempts |-> 1, points_possible |-> 30,
                                         module_weight |-> 30, time_limit |-> 90,
                                         question_count |-> 30]
                    /\ \A i \in 1..3 : ~HasRow(analysis.rows, RubricLabels[i])
                    /\ RowOk(analysis.rows, "Tipo de entrega")
                          <=> PyEq(Get(a, "submission_types"), Some(<<"online_quiz">>))
                    /\ RowOk(analysis.rows, "Puntos posibles") <=> a.points_possible = 30
                    /\ RowOk(analysis.rows, "Ponderacion") <=> ModuleHeld.group_weight = 30
                    /\ HasRow(analysis.rows, "Intentos permitidos")
                          <=> ("quiz_id" \in DOMAIN a /\ FetchOk(remote.quiz))
                    /\ HasRow(analysis.rows, "Intentos permitidos") =>
                          /\ RowOk(analysis.rows, "Intentos permitidos")
                                <=> QuizHeld.allowed_attempts = 1
                          /\ RowOk(analysis.rows, "Numero de preguntas")
                                <=> QuizHeld.question_count = 30
                          /\ RowOk(analysis.rows, "Limite de tiempo (min)")
                                <=> PyEq(Get(QuizHeld, "time_limit"), Some(90))
           ELSE /\ "quiz" \notin Range(analysis.fetched)
                /\ Checklist =>
                    /\ analysis.rules = [submission_types |-> <<"online_upload">>,
                                         allowed_attempts |-> 2, points_possible |-> 100,
                                         module_weight |-> 50]
                    /\ \A i \in 1..3 : HasRow(analysis.rows, RubricLabels[i])
                    /\ ~HasRow(analysis.rows, "Numero de preguntas")
                    /\ RowOk(analysis.rows, "Tipo de entrega")
                          <=> PyEq(Get(a, "submission_types"), Some(<<"online_upload">>))
                    /\ RowOk(analysis.rows, "Intentos permitidos")
                          <=> PyEq(Get(a, "allowed_attempts"), Some(2))
                    /\ RowOk(analysis.rows, "Puntos posibles") <=> a.points_possible = 100
                    /\ RowOk(analysis.rows, "Ponderacion") <=> ModuleHeld.group_weight = 50

\* C4 witness: a massive "finalwork" call on an online quiz with its quiz
\* detail returned a checklist whose delivery and attempts rows pass
C4_Witness ==
    /\ Called
    /\ args.assignment_type = "finalwork"
    /\ args.is_massive
    /\ Checklist
    /\ args.assignment.allowed_attempts = 2
    /\ RowOk(analysis.rows, "Tipo de entrega")
    /\ RowOk(analysis.rows, "Intentos permitidos")
    /\ RowOk(analysis.rows, "Puntos posibles")

\* the category the call is analysed under
Category ==
    IF args.is_massive /\ args.assignment_type = "finalwork"
    THEN "quiz_final" ELSE args.assignment_type

\* the scenario of C6: a forum assignment delivered as a discussion topic,
\* worth 100 points, in a module of weight 20 named like the assignment,
\* with a threaded discussion
ForumScenario ==
    /\ Called
    /\ args.assignment_type = "forum"
    /\ PyEq(Get(args.assignment, "submission_types"), Some(<<"discussion_topic">>))
    /\ PyEq(Get(args.assignment, "points_possible"), Some(100))
    /\ args.assignment.discussion_topic.discussion_type = "threaded"
    /\ FetchOk(remote.module)
    /\ ModuleHeld.group_weight = 20
    /\ clean_string(ModuleHeld.name) = clean_string(args.assignment.name)

\* C6 (as stated): in the forum scenario every row of the checklist is a
\* pass, whatever the rubric settings, grading type and allowed attempts.
C6_ForumScenarioAllPass == ForumScenario => (Checklist /\ AllRowsOk(analysis.rows))

\* C6 (amended): in the forum scenario a checklist is returned whose
\* delivery, points, weighting and module rows pass whatever the other
\* fields are; every row passes if and only if, in addition, the assignment
\* has rubric settings worth 100 points, uses the rubric for grading and is
\* graded in points.
C6_ForumScenarioPassIffRubricAndPoints ==
    ForumScenario =>
        /\ Checklist
        /\ RowOk(analysis.rows, "Tipo de entrega")
        /\ RowOk(analysis.rows, "Puntos posibles")
        /\ RowOk(analysis.rows, "Ponderacion")
        /\ RowOk(analysis.rows, "Modulo")
        /\ AllRowsOk(analysis.rows) <=>
              /\ "rubric_settings" \in DOMAIN args.assignment
              /\ args.assignment.rubric_settings.points_possible = 100
              /\ args.assignment.use_rubric_for_grading
              /\ args.assignment.grading_type = "points"

\* C6 witness: the forum scenario with no rubric, where the rubric rows fail
C6_Witness ==
    /\ ForumScenario
    /\ "rubric_settings" \notin DOMAIN args.assignment
    /\ args.assignment.grading_type = "points"
    /\ Checklist
    /\ ~RowOk(analysis.rows, "Tiene rubrica")
    /\ RowOk(analysis.rows, "Modulo")

\* C7: a teamwork assignment whose module and points could be read, in a
\* course whose group-category list was fetched and holds no category named
\* "Equipo de trabajo" (the list may be empty), gets a checklist whose rows
\* "Existe Equipo de trabajo" and "Equipos creados" are both fail.
C7_NoEquipoCategoryFails ==
    ( /\ Called
      /\ args.assignment_type = "teamwork"
      /\ "points_possible" \in DOMAIN args.assignment
      /\ FetchOk(remote.module)
      /\ FetchOk(remote.course.group_categories)
      /\ ~EquipoHeld(remote.course) ) =>
        /\ Checklist
        /\ HasRow(analysis.rows, "Existe Equipo de trabajo")
        /\ ~RowOk(analysis.rows, "Existe Equipo de trabajo")
        /\ HasRow(analysis.rows, "Equipos creados")
        /\ ~RowOk(analysis.rows, "Equipos creados")

\* C8 (as stated): the rows come in one fixed order for every category:
\* the rubric rows (not for quiz_final), delivery type, attempts, grading
\* type, points, weighting, module, then the category's own rows; the
\* attempts row, whenever present, lies between the delivery-type row and
\* the grading-type row.
C8_AttemptsBetweenDeliveryAndGrading ==
    (Called /\ Checklist) =>
        LET labels == Labels(analysis.rows)
        IN HasRow(analysis.rows, "Intentos permitidos") =>
              /\ IndexOf(labels, "Tipo de entrega") < IndexOf(labels, "Intentos permitidos")
              /\ IndexOf(labels, "Intentos permitidos") < IndexOf(labels, "Tipo de calificacion")

\* C8 (amended): the rows come in one fixed order per category.  For every
\* category but quiz_final: the three rubric rows, delivery type, attempts
\* (not for forum), grading type, points, weighting, module, then the six
\* team rows for teamwork.  For quiz_final: delivery type, grading type,
\* points, weighting, module, then, when the quiz detail was retrieved, the
\* six quiz rows, of which the attempts row is the second.
C8_FixedOrderPerCategory ==
    (Called /\ Checklist) =>
        Labels(analysis.rows) =
            IF Category = "quiz_final"
            THEN <<"Tipo de entrega">> \o GradingLabels
                 \o (IF "quiz_id" \in DOMAIN args.assignment /\ FetchOk(remote.quiz)
                     THEN QuizLabels ELSE <<>>)
            ELSE RubricLabels \o <<"Tipo de entrega">>
                 \o (IF Category # "forum" THEN <<"Intentos permitidos">> ELSE <<>>)
                 \o GradingLabels
                 \o (IF Category = "teamwork" THEN TeamLabels ELSE <<>>)

\* C8 witness: a quiz_final checklist with its quiz rows, the attempts row
\* behind the module row
C8_Witness ==
    /\ Called
    /\ Checklist
    /\ Category = "quiz_final"
    /\ HasRow(analysis.rows, "Intentos permitidos")
    /\ IndexOf(Labels(analysis.rows), "Modulo")
          < IndexOf(Labels(analysis.rows), "Intentos permitidos")

\* the rows whose state compares an assignment or module value with the rule set
RuleRows == {"Tipo de entrega", "Intentos permitidos", "Puntos posibles", "Ponderacion"}

\* C9: a missing actual value renders as fail: in a returned checklist the
\* delivery row fails when the assignment has no submission_types, the
\* attempts row taken from the assignment fails when it has no
\* allowed_attempts, and for an unknown category (empty rule set) every
\* row compared with the rule set fails.
C9_MissingActualFails ==
    (Called /\ Checklist) =>
        /\ "submission_types" \notin DOMAIN args.assignment
              => ~RowOk(analysis.rows, "Tipo de entrega")
        /\ ("allowed_attempts" \notin DOMAIN args.assignment /\ Category # "quiz_final")
              => ~RowOk(analysis.rows, "Intentos permitidos")
        /\ Category \notin {"forum", "teamwork", "finalwork", "quiz_final"}
              => \A label \in RuleRows : ~RowOk(analysis.rows, label)

(***************************************************************************)
(* main.py: the review loop ("Revisar") over course_ids                    *)
(*                                                                         *)
(* run = [n, i, is_massive, pending, reviewed, raised_at]: the number of   *)
(* course ids, the index of the current one, the flag of the current       *)
(* course, the analyses still to make for it (assignment and category, in  *)
(* the order of lines 60-84), what became of each course already left      *)
(* ("skipped" by a continue, "reviewed" at line 86), and the line whose    *)
(* exception ended the run (0 while none did).                             *)
(***************************************************************************)
FORO_ACADEMICO == <<"f", "o", "r", "o", " ", "a", "c", "a", "d", "e", "m", "i", "c", "o">>

TRABAJO_EN_EQUIPO == <<"t", "r", "a", "b", "a", "j", "o", " ", "e", "n", " ", "e", "q", "u", "i", "p", "o">>

TAREA_EN_EQUIPO == <<"t", "a", "r", "e", "a", " ", "e", "n", " ", "e", "q", "u", "i", "p", "o">>

TRABAJO_FINAL == <<"t", "r", "a", "b", "a", "j", "o", " ", "f", "i", "n", "a", "l">>

CUESTIONARIO_FINAL == <<"c", "u", "e", "s", "t", "i", "o", "n", "a", "r", "i", "o", " ", "f", "i", "n", "a", "l">>

DIPLOMADO_MASIVO == <<"D", "i", "p", "l", "o", "m", "a", "d", "o", " ", "M", "a", "s", "i", "v", "o">>

\* lines 53-57 and 60-84: the analyses of one course, in the order made
RECURSIVE Named(_, _)
Named(course_assignments, keywords) ==
    IF course_assignments = <<>> THEN <<>>
    ELSE LET a == Head(course_assignments)
             cleaned == clean_string(LowerStr(a.name))
         IN (IF \E k \in keywords : Contains(k, cleaned) THEN <<a>> ELSE <<>>)
            \o Named(Tail(course_assignments), keywords)

Tagged(assignments, category) ==
    [i \in 1..Len(assignments) |-> [assignment |-> assignments[i], category |-> category]]

Analyses(course_assignments, is_massive) ==
    LET forum_assignments == Named(course_assignments, {FORO_ACADEMICO})
        teamwork_assignments == Named(course_assignments, {TRABAJO_EN_EQUIPO, TAREA_EN_EQUIPO})
        final_assignments ==
            IF is_massive THEN Named(course_assignments, {CUESTIONARIO_FINAL})
            ELSE Named(course_assignments, {TRABAJO_FINAL})
    IN Tagged(forum_assignments, "forum") \o Tagged(teamwork_assignments, "teamwork")
       \o Tagged(final_assignments, "finalwork")

\* get_student_count(session, course_id): imported by main.py, defined in no
\* source file at hand; a count of the course's students, None when the
\* user list cannot be fetched
get_student_count(users_chain) ==
    LET users_response == canvas_request("get", users_chain, TRUE)
    IN IF users_response.none THEN None
       ELSE Some(Cardinality(DOMAIN StudentDict(users_response.val)))

\* the next course id, or the end of the loop (line 33)
Advance(r, outcome) ==
    [r EXCEPT !.i = @ + 1, !.pending = <<>>, !.reviewed = Append(@, outcome)]

PcAfter(r) == IF r.i > r.n THEN "done" ELSE "course"

\* lines 35-57 for one course id: the outcome is the line that raised, a
\* continue, or the analyses to make
CourseHeader(course_chain, subaccount_chain, users_chain, assignments_chain) ==
    LET course_info == canvas_request("get", course_chain, FALSE)
        subaccount_info == canvas_request("get", subaccount_chain, FALSE)
        course_assignments == canvas_request("get", assignments_chain, FALSE)
    IN IF course_info.none THEN [kind |-> "raised", line |-> 36]
       ELSE IF subaccount_info.none THEN [kind |-> "raised", line |-> 38]
       ELSE IF "name" \notin DOMAIN subaccount_info.val THEN [kind |-> "raised", line |-> 38]
       ELSE LET is_massive == Contains(clean_string(DIPLOMADO_MASIVO),
                                       clean_string(subaccount_info.val.name))
                student_count == get_student_count(users_chain)
            IN IF DOMAIN course_info.val = {} THEN [kind |-> "continue", line |-> 41]
               ELSE IF FalsyList(course_assignments) THEN [kind |-> "continue", line |-> 50]
               ELSE [kind |-> "analyses", is_massive |-> is_massive,
                     pending |-> Analyses(course_assignments.val, is_massive)]

(***************************************************************************)
(* The courses the review loop is run on                                   *)
(***************************************************************************)
CourseChains ==
    { FailedFetch, <<OkPage(<<>>)>>,
      <<OkPage([id |-> 1, name |-> <<"c">>, account_id |-> 3, course_code |-> <<"c">>])>> }

SubaccountChains ==
    { FailedFetch,
      <<OkPage([id |-> 3, name |-> <<"D", "i", "p", "l", "o", "m", "a", "d", "o", " ", "M", "a", "s", "i", "v", "o", " ", "(", "T", ")">>])>>,
      <<OkPage([id |-> 3, name |-> <<"D", "i", "p", "l", "o", "m", "a", "d", "o">>])>> }

\* assignments set as the rule catalog expects, one per name
Conforming(name, submission_type, points) ==
    [name |-> name, assignment_group_id |-> 7, submission_types |-> <<submission_type>>,
     points_possible |-> points, grading_type |-> "points", allowed_attempts |-> 2,
     rubric_settings |-> [points_possible |-> 100], use_rubric_for_grading |-> TRUE,
     group_category_id |-> 1, quiz_id |-> 5]

ReviewedAssignments ==
    { Conforming(<<"F", "o", "r", "o", " ", "A", "c", "a", "d", "e_acute", "m", "i", "c", "o">>, "discussion_topic", 100),
      Conforming(<<"T", "r", "a", "b", "a", "j", "o", " ", "e", "n", " ", "e", "q", "u", "i", "p", "o">>, "online_upload", 100),
      Conforming(<<"T", "r", "a", "b", "a", "j", "o", " ", "f", "i", "n", "a", "l">>, "online_upload", 100),
      Conforming(<<"C", "u", "e", "s", "t", "i", "o", "n", "a", "r", "i", "o", " ", "f", "i", "n", "a", "l">>, "online_quiz", 30),
      Conforming(<<"T", "a", "r", "e", "a">>, "online_upload", 100) }

AssignmentChains ==
    {FailedFetch} \cup {<<OkPage(l)>> : l \in SeqsUpTo(ReviewedAssignments, MaxAssignments)}

ReviewedModuleChains ==
    {FailedFetch, <<OkPage([name |-> <<"F", "o", "r", "o", " ", "A", "c", "a", "d", "e_acute", "m", "i", "c", "o">>, group_weight |-> 20, id |-> 7])>>}

ReviewedQuizChains ==
    {FailedFetch,
     <<OkPage([question_count |-> 30, allowed_attempts |-> 1, time_limit |-> 90,
               shuffle_answers |-> TRUE, show_correct_answers |-> TRUE])>>}

InitRun ==
    /\ pc = "course"
    /\ run \in [n : 1..MaxCourses, i : {1}, is_massive : {FALSE}, pending : {<<>>},
                reviewed : {<<>>}, raised_at : {0}]
    /\ call = Idle
    /\ url = 0
    /\ results = <<>>
    /\ requested = <<>>
    /\ ret = None
    /\ course = Idle
    /\ team_options = Idle
    /\ args = Idle
    /\ remote = Idle
    /\ analysis = Idle
    /\ norm = Idle

\* lines 35-57 for the course id at run.i
StartCourse ==
    /\ pc = "course"
    /\ \E course_chain \in CourseChains, subaccount_chain \in SubaccountChains,
          users_chain \in UserChains(1), assignments_chain \in AssignmentChains :
            LET h == CourseHeader(course_chain, subaccount_chain, users_chain, assignments_chain)
            IN CASE h.kind = "raised" ->
                      /\ run' = [run EXCEPT !.raised_at = h.line]
                      /\ pc' = "aborted"
                 [] h.kind = "continue" ->
                      /\ run' = Advance(run, "skipped")
                      /\ pc' = PcAfter(run')
                 [] h.kind = "analyses" ->
                      /\ run' = [run EXCEPT !.is_massive = h.is_massive, !.pending = h.pending]
                      /\ pc' = "assignments"
    /\ UNCHANGED <<requestVars, teamVars, analyzeVars, norm>>

\* one iteration of the loops of lines 63-66, 72-75 and 81-84
AnalyzeNext ==
    /\ pc = "assignments"
    /\ run.pending # <<>>
    /\ LET next == Head(run.pending)
       IN \E module \in ReviewedModuleChains, quiz \in ReviewedQuizChains, crs \in AnalyzedCourses :
            LET out == analyze_assignment(next.assignment, next.category, run.is_massive,
                                          [module |-> module, quiz |-> quiz, course |-> crs])
            IN IF out.outcome = "raised"
               THEN /\ run' = [run EXCEPT !.raised_at = out.line]
                    /\ pc' = "aborted"
               ELSE /\ run' = [run EXCEPT !.pending = Tail(@)]
                    /\ pc' = "assignments"
    /\ UNCHANGED <<requestVars, teamVars, analyzeVars, norm>>

\* line 86, and the next iteration of line 33
FinishCourse ==
    /\ pc = "assignments"
    /\ run.pending = <<>>
    /\ run' = Advance(run, "reviewed")
    /\ pc' = PcAfter(run')
    /\ UNCHANGED <<requestVars, teamVars, analyzeVars, norm>>

NextRun == StartCourse \/ AnalyzeNext \/ FinishCourse

SpecRun == InitRun /\ [][NextRun]_vars

(***************************************************************************)
(* Properties of the review loop                                           *)
(***************************************************************************)
\* C1: no exception ends a review run: whatever fetches return null, the
\* failing unit is skipped and the run gets through every course id.
C1_NoExceptionEndsTheRun ==
    /\ pc # "aborted"
    /\ run.raised_at = 0
    /\ pc = "done" => Len(run.reviewed) = run.n

(***************************************************************************)
(* helpers.clean_string applied to a string and then to its own result     *)
(***************************************************************************)
\* one character of each class clean_string tells apart: a lower-case and
\* an upper-case letter, whitespace, a punctuation mark the pattern keeps,
\* one it strips, and an accented letter
Alphabet == {"a", "A", " ", ".", "#", "e_acute"}

InputStrings == SeqsUpTo(Alphabet, MaxLen)

InitClean ==
    /\ pc = "call"
    /\ norm \in [input_string : InputStrings, once : {None}, twice : {None}]
    /\ call = Idle
    /\ url = 0
    /\ results = <<>>
    /\ requested = <<>>
    /\ ret = None
    /\ course = Idle
    /\ team_options = Idle
    /\ args = Idle
    /\ remote = Idle
    /\ analysis = Idle
    /\ run = Idle

\* clean_string(input_string)
Clean ==
    /\ pc = "call"
    /\ norm' = [norm EXCEPT !.once = Some(clean_string(norm.input_string))]
    /\ pc' = "cleaned"
    /\ UNCHANGED <<requestVars, teamVars, analyzeVars, run>>

\* clean_string(clean_string(input_string))
CleanAgain ==
    /\ pc = "cleaned"
    /\ norm' = [norm EXCEPT !.twice = Some(clean_string(norm.once.val))]
    /\ pc' = "recleaned"
    /\ UNCHANGED <<requestVars, teamVars, analyzeVars, run>>

NextClean == Clean \/ CleanAgain

SpecClean == InitClean /\ [][NextClean]_vars

(***************************************************************************)
(* Properties of the normalizer                                            *)
(***************************************************************************)
\* C11: clean_string is idempotent: cleaning the result of clean_string
\* gives that result again, and the result of clean_string neither starts
\* nor ends with whitespace.
C11_CleanStringIdempotent ==
    /\ pc = "recleaned" => norm.twice = norm.once
    /\ pc \in {"cleaned", "recleaned"} =>
          \/ norm.once.val = <<>>
          \/ /\ Head(norm.once.val) \notin Whitespace
             /\ norm.once.val[Len(norm.once.val)] \notin Whitespace

(***************************************************************************)
(* Properties of the two team lookups of one analysis                      *)
(***************************************************************************)
\* C12: in every teamwork checklist, also for a course whose group
\* categories span more than one page, a passing "Equipos creados" row
\* comes with a passing "Existe Equipo de trabajo" row.
C12_TeamsCreatedImpliesEquipoExists ==
    ( /\ Called
      /\ Checklist
      /\ args.assignment_type = "teamwork"
      /\ RowOk(analysis.rows, "Equipos creados") ) =>
        RowOk(analysis.rows, "Existe Equipo de trabajo")

====
